---- MODULE Spec2Model ----
(***************************************************************************)
(* State-machine model of evgb::GENIEHelper                                *)
(* (src/EventGeneratorBase/GENIE/GENIEHelper.cxx): construction,           *)
(* Initialize(), and the Sample()/Stop() spill and exposure accounting.    *)
(*                                                                         *)
(* Numbers.  The C++ fields are doubles; the model keeps them as integers  *)
(* in arbitrary units.  UsedPOTs()/GlobProbScale() is modelled with        *)
(* integer division, and pi is the rational PiNum/PiDen, so that the       *)
(* atmospheric normalisation 1e4*N/(pi*Rt^2) is an integer.                *)
(*                                                                         *)
(* External collaborators.  The GENIE generator and its flux drivers are   *)
(* opaque: one GenerateEvent() call yields a record or a null pointer and  *)
(* advances the flux driver's cumulative counter (UsedPOTs for the ntuple  *)
(* drivers, NFluxNeutrinos for the atmospheric ones) by some amount >= 0.  *)
(* TRandom::Poisson returns some non-negative integer.                     *)
(***************************************************************************)
EXTENDS Integers, Sequences, FiniteSets, TLC

\* ------------------------------------------------------------------ bounds
MaxEventsPerSpill == 2
MaxPOTPerSpill == 2
MaxPoisson == 2
MaxStep == 1
MaxUsed == 3
MaxProbScale == 2
MaxSpills == 2
MaxCounts == 2

\* ------------------------------------------------------- program constants
fAtmoRt == 20
UnitsFactor == 10000
PiNum == 355
PiDen == 113

\* ------------------------------------------------------------------- state
VARIABLES
  pc,                  \* "config", "constructed", "ready", "exited", "aborted"
  fFluxType,
  fEventsPerSpill,
  fPOTPerSpill,
  fTopVolume,
  fWorldVolume,
  fFiducialCut,
  genFlavorsSize,      \* genFlavors.size()
  fFluxFilesSize,      \* fFluxFiles.size()
  fHistEventsPerSpill,
  fSpillEvents,
  fSpillExposure,
  fTotalExposure,
  UsedPOTs,            \* flux driver's cumulative UsedPOTs()
  NFluxNeutrinos,      \* atmospheric driver's cumulative NFluxNeutrinos()
  GlobProbScale,       \* fDriver->GlobProbScale()
  geoTopVolume,        \* the TGeoManager's current top volume
  NDEBUG,              \* the build compiles assert() out
  geomVolSelector,     \* the selector adopted by the ROOT geometry driver
  fidLog,              \* messages logged by the fiducial-cut parsing
  atmoFluxFiles,       \* SetFluxFile calls made on the atmospheric driver
  genFlavors,          \* the configured GenFlavors vector
  fMixerBaseline,
  fMixerConfig,
  fGeomScan,
  fFluxHistograms,     \* names of the histograms read by the constructor
  fTotalHistFlux,      \* [assigned, value]: not assigned until first written
  energySpectra,       \* AddEnergySpectrum(flavour, histogram) calls
  loadedFluxFiles,     \* files handed to LoadBeamSimData
  fFluxD,              \* class of the flux driver, or "null"
  fFluxD2GMCJD,        \* what fDriver->UseFluxDriver() receives
  mixerLog,
  scanner,             \* scan parameters of the ROOT geometry driver
  scanLog,
  initTrace,           \* history: the stages Initialize() went through
  lastOp,              \* history: the call that produced this state
  lastRet,             \* history: what that call returned
  topVolAtGenerate,    \* history: top volume in force at GenerateEvent()
  nSpills,             \* history: spills closed since Initialize()
  nSuccess,            \* history: successful Sample()s since last closure
  fL,                  \* fL[v][t]: the list f<t>L of view v (object numbers)
  fgL,                 \* fgL[t]: the static list View2D::fg<t>L
  drawable,            \* drawable[t][n]: what object n of type t was set to
  alive,               \* alive[v]: view v is constructed and not destroyed
  maxHeld              \* history: most objects of a type held by views at once

config == <<fFluxType, fEventsPerSpill, fPOTPerSpill, fFiducialCut,
            genFlavorsSize, fFluxFilesSize, NDEBUG, genFlavors, fMixerBaseline>>
selection == <<geomVolSelector, fidLog, atmoFluxFiles>>
histograms == <<fFluxHistograms, fTotalHistFlux>>
fluxSetup == <<energySpectra, loadedFluxFiles, fFluxD, fFluxD2GMCJD,
               fMixerConfig, mixerLog>>
scanSetup == <<fGeomScan, scanner, scanLog, initTrace>>
setup == <<histograms, fluxSetup, scanSetup>>
spill == <<fSpillEvents, fSpillExposure, fTotalExposure, fHistEventsPerSpill>>
driver == <<UsedPOTs, NFluxNeutrinos, GlobProbScale>>
geometry == <<fTopVolume, fWorldVolume, geoTopVolume, topVolAtGenerate>>
history == <<lastOp, lastRet, nSpills, nSuccess>>
helper == <<pc, config, spill, driver, geometry, selection, setup, history>>
display == <<fL, fgL, drawable, alive, maxHeld>>
vars == <<helper, display>>

FluxTypes == {"mono", "histogram", "ntuple", "simple_flux",
              "atmo_FLUKA", "atmo_BARTOL"}
TopVolumes == {"volDetector", "volWorld"}

IsAtmo == fFluxType \in {"atmo_FLUKA", "atmo_BARTOL"}
IsNtuple == fFluxType \in {"ntuple", "simple_flux"}
IsHistogram == fFluxType = "histogram"
IsMono == fFluxType = "mono"

MaxSpillEvents ==
  (IF MaxEventsPerSpill > MaxPoisson THEN MaxEventsPerSpill ELSE MaxPoisson) + 1

\* ------------------------------------------------------------ text helpers
\* A std::string is a sequence of one-character strings.
Npos == -1
WhiteSpace == {" ", "\t", "\n"}
ValueSeparators == {" ", ",", ";", "(", ")", "{", "}", "[", "]"}
UpperCase == <<"A", "B", "C", "D", "E", "F", "G", "H", "I", "J", "K", "L", "M",
               "N", "O", "P", "Q", "R", "S", "T", "U", "V", "W", "X", "Y", "Z">>
LowerCase == <<"a", "b", "c", "d", "e", "f", "g", "h", "i", "j", "k", "l", "m",
               "n", "o", "p", "q", "r", "s", "t", "u", "v", "w", "x", "y", "z">>
Digits == <<"0", "1", "2", "3", "4", "5", "6", "7", "8", "9">>

\* std::string::find_first_not_of / find_first_of: 0-based position or Npos
FindFirstNotOf(str, chars) ==
  IF \E i \in 1..Len(str) : str[i] \notin chars
    THEN (CHOOSE i \in 1..Len(str) :
            /\ str[i] \notin chars
            /\ \A k \in 1..(i - 1) : str[k] \in chars) - 1
    ELSE Npos

FindFirstOf(str, chars) ==
  IF \E i \in 1..Len(str) : str[i] \in chars
    THEN (CHOOSE i \in 1..Len(str) :
            /\ str[i] \in chars
            /\ \A k \in 1..(i - 1) : str[k] \notin chars) - 1
    ELSE Npos

\* Variant: whitespace is trimmed at both ends of the string.
TrimLeading_BothEnds(str) ==
  LET idx == {i \in 1..Len(str) : str[i] \notin WhiteSpace}
  IN  IF idx = {} THEN << >>
      ELSE SubSeq(str, CHOOSE i \in idx : \A k \in idx : i <= k,
                       CHOOSE i \in idx : \A k \in idx : i >= k)

\* if (s.find_first_not_of(" \t\n") != 0) s.erase(0, s.find_first_not_of(...))
TrimLeading(str) ==
  LET pos == FindFirstNotOf(str, WhiteSpace)
  IN  IF pos = 0 THEN str
      ELSE IF pos = Npos THEN << >>
      ELSE SubSeq(str, pos + 1, Len(str))

\* ::tolower
ToLowerChar(c) ==
  IF \E k \in 1..26 : UpperCase[k] = c
    THEN LowerCase[CHOOSE k \in 1..26 : UpperCase[k] = c]
    ELSE c

\* std::transform(begin, end, begin, ::tolower)
ToLower(str) == [i \in 1..Len(str) |-> ToLowerChar(str[i])]

\* str.find(sub) != std::string::npos
Contains(str, sub) ==
  \E i \in 0..(Len(str) - Len(sub)) : SubSeq(str, i + 1, i + Len(sub)) = sub

\* genie::utils::str::Split: cut at every delimiter character, keep empty
\* tokens, always end with the remainder
RECURSIVE Split(_, _)
Split(str, delims) ==
  LET pos == FindFirstOf(str, delims)
  IN  IF pos = Npos THEN <<str>>
      ELSE <<SubSeq(str, 1, pos)>> \o Split(SubSeq(str, pos + 2, Len(str)), delims)

DigitValue(c) == (CHOOSE k \in 1..10 : Digits[k] = c) - 1
IsDigit(c) == \E k \in 1..10 : Digits[k] = c

\* atof on an optionally signed run of decimal digits; what follows the
\* digits is ignored and a token without digits gives 0
RECURSIVE AtofDigits(_, _)
AtofDigits(str, acc) ==
  IF str = << >> \/ ~IsDigit(Head(str)) THEN acc
  ELSE AtofDigits(Tail(str), 10 * acc + DigitValue(Head(str)))

Atof(str) ==
  IF str # << >> /\ Head(str) = "-" THEN 0 - AtofDigits(Tail(str), 0)
  ELSE AtofDigits(str, 0)

\* the loop that pushes atof() of every non-empty token onto vals
RECURSIVE ParseValues(_)
ParseValues(valstrs) ==
  IF valstrs = << >> THEN << >>
  ELSE IF Head(valstrs) # << >>
    THEN <<Atof(Head(valstrs))>> \o ParseValues(Tail(valstrs))
    ELSE ParseValues(Tail(valstrs))

\* ------------------------------------------------------ fiducial selection
sNone == <<"n", "o", "n", "e">>
sRock == <<"r", "o", "c", "k">>
sZcyl == <<"z", "c", "y", "l">>
sBox == <<"b", "o", "x">>
sZpoly == <<"z", "p", "o", "l", "y">>
sSphere == <<"s", "p", "h", "e", "r", "e">>

\* Numbers handed to the selectors.  Lengths are in cm.  The rock energy loss
\* is kept in units of 1e-5 GeV/cm and the fudge factor in units of 1e-2, so
\* that the defaults 2.5*1.7e-3 and 1.05 are integers; SetDeDx receives the
\* quotient dedx/fudge, kept as the pair of its two terms.
PadSize == 7
RockMinVals == 6
DefaultWallMin == 800
DefaultDeDx == 425
DefaultFudge == 105
DeDxUnit == 100000
FudgeUnit == 100

\* No selector adopted by the geometry driver.
NoSelector ==
  [class |-> "none", shape |-> "none", args |-> << >>, unit |-> "cm",
   reverse |-> FALSE, master |-> FALSE, rockMin |-> << >>, rockMax |-> << >>,
   rockOnly |-> FALSE, wall |-> 0, dedx |-> 0, fudge |-> 0]

\* fidcut after the leading-whitespace trim and the lowercase transform
NormalizedCut(raw) == ToLower(TrimLeading(raw))

\* if ( "" == fidcut || "none" == fidcut ) return;
IsNoCut(fidcut) == fidcut = << >> \/ fidcut = sNone

\* the if / else-if chain over stype.find(...)
FidShape(stype) ==
  IF Contains(stype, sZcyl) THEN "zcyl"
  ELSE IF Contains(stype, sBox) THEN "box"
  ELSE IF Contains(stype, sZpoly) THEN "zpoly"
  ELSE IF Contains(stype, sSphere) THEN "sphere"
  ELSE "unknown"

\* Variant: "rock" is probed last, after the four basic shapes.
IsRockCut_AfterShapes(fidcut) ==
  Contains(fidcut, sRock) /\ FidShape(fidcut) = "unknown"

\* if ( fidcut.find("rock") != string::npos ) InitializeRockBoxSelection()
IsRockCut(fidcut) == Contains(fidcut, sRock)

\* for ( size_t nadd = 0; nadd < 7-nvals; ++nadd ) vals.push_back(0);
\* 7-nvals is a size_t: for nvals > 7 it wraps to 2^64-(nvals-7), more
\* elements than a vector can hold, and push_back throws.
PadThrows(nvals) == nvals > PadSize

PadValues(vals) == vals \o [i \in 1..(PadSize - Len(vals)) |-> 0]

\* double xyzmin[3] = { vals[0], vals[1], vals[2] };
BoxMin(vals) == <<vals[1], vals[2], vals[3]>>

\* double xyzmax[3] = { vals[4], vals[5], vals[5] };
BoxMax(vals) == <<vals[5], vals[6], vals[6]>>

\* the arguments of MakeZCylinder, MakeBox, MakeZPolygon, MakeSphere
ShapeArgs(shape, vals) ==
  IF shape = "zcyl" THEN SubSeq(vals, 1, 5)
  ELSE IF shape = "box" THEN BoxMin(vals) \o BoxMax(vals)
  ELSE IF shape = "zpoly" THEN SubSeq(vals, 1, 7)
  ELSE IF shape = "sphere" THEN SubSeq(vals, 1, 4)
  ELSE << >>

\* the mf::LogError messages of the shape chain
ShapeLog(shape, nvals, vals) ==
  IF shape = "zcyl" THEN (IF nvals < 5 THEN <<"error: zcyl nvals">> ELSE << >>)
  ELSE IF shape = "box" THEN (IF nvals < 6 THEN <<"error: box nvals">> ELSE << >>)
  ELSE IF shape = "zpoly"
    THEN (IF nvals < 7 THEN <<"error: zpoly nvals">> ELSE << >>)
         \o (IF vals[1] < 3 THEN <<"error: zpoly nfaces">> ELSE << >>)
  ELSE IF shape = "sphere"
    THEN (IF nvals < 4 THEN <<"error: sphere nvals">> ELSE << >>)
  ELSE <<"error: unknown shape">>

\* The selector handed to rgeom->AdoptGeomVolSelector(fidsel): the chain logs
\* its complaints and falls through to the adoption in every branch.
AdoptedFiducial(stype, nvals, vals) ==
  [NoSelector EXCEPT !.class = "Fiducial",
                     !.shape = FidShape(stype),
                     !.args = ShapeArgs(FidShape(stype), vals),
                     !.reverse = Contains(stype, <<"0">>),
                     !.master = Contains(stype, <<"m">>)]

\* InitializeFiducialSelection past the "none" and "rock" tests.
\* prior is the selector the geometry driver held before the call.
StandardSelection(fidcut, prior) ==
  LET strtok == Split(fidcut, {":"})
  IN  IF Len(strtok) # 2
        THEN [abort |-> FALSE, selector |-> prior,
              log |-> <<"warning: no colon">>]
        ELSE LET stype == strtok[1]
                 vals == ParseValues(Split(strtok[2], ValueSeparators))
                 nvals == Len(vals)
             IN  IF PadThrows(nvals)
                   THEN [abort |-> TRUE, selector |-> prior, log |-> << >>]
                   ELSE [abort |-> FALSE,
                         selector |-> AdoptedFiducial(stype, nvals,
                                                      PadValues(vals)),
                         log |-> ShapeLog(FidShape(stype), nvals,
                                          PadValues(vals))]

\* vals[i-1] as InitializeRockBoxSelection reads it: past the end of the
\* vector the read is undefined and yields whatever the memory holds.
RockVal(vals, i, garbage) == IF i <= Len(vals) THEN vals[i] ELSE garbage

\* if ( nvals >= 7 ) rockonly = vals[6];  (double to bool)
RockOnly(vals) == IF Len(vals) >= 7 THEN vals[7] # 0 ELSE TRUE
RockWallMin(vals) == IF Len(vals) >= 8 THEN vals[8] ELSE DefaultWallMin
RockDeDx(vals) == IF Len(vals) >= 9 THEN vals[9] * DeDxUnit ELSE DefaultDeDx
RockFudge(vals) == IF Len(vals) >= 10 THEN vals[10] * FudgeUnit ELSE DefaultFudge

\* The selector handed to rgeom->AdoptGeomVolSelector(rocksel).
AdoptedRockBox(vals, garbage) ==
  LET xyzmin == <<RockVal(vals, 1, garbage), RockVal(vals, 2, garbage),
                  RockVal(vals, 3, garbage)>>
      xyzmax == <<RockVal(vals, 4, garbage), RockVal(vals, 5, garbage),
                  RockVal(vals, 6, garbage)>>
  IN  [NoSelector EXCEPT
         !.class = "RockBox",
         !.rockMin = xyzmin,
         !.rockMax = xyzmax,
         !.rockOnly = RockOnly(vals),
         !.wall = RockWallMin(vals),
         !.dedx = RockDeDx(vals),
         !.fudge = RockFudge(vals),
         !.shape = IF RockOnly(vals) THEN "box" ELSE "sphere",
         !.unit = IF RockOnly(vals) THEN "cm" ELSE "1e-10 cm",
         !.args = IF RockOnly(vals) THEN xyzmin \o xyzmax ELSE <<0, 0, 0, 1>>]

\* assert( nvals >= 6 ): with assertions compiled in a short list aborts;
\* with NDEBUG the code runs on and reads past the end of vals, which either
\* crashes or yields garbage.
RockAborts(nvals, ndebug, crash) ==
  nvals < RockMinVals /\ (~ndebug \/ crash)

\* InitializeRockBoxSelection
RockBoxSelection(fidcut, prior, ndebug, crash, garbage) ==
  LET strtok == Split(fidcut, {":"})
  IN  IF Len(strtok) # 2
        THEN [abort |-> FALSE, selector |-> prior,
              log |-> <<"warning: no colon">>]
        ELSE LET vals == ParseValues(Split(strtok[2], ValueSeparators))
                 nvals == Len(vals)
                 log == IF nvals < RockMinVals THEN <<"error: rock nvals">>
                                               ELSE << >>
             IN  IF RockAborts(nvals, ndebug, crash)
                   THEN [abort |-> TRUE, selector |-> prior, log |-> log]
                   ELSE [abort |-> FALSE,
                         selector |-> AdoptedRockBox(vals, garbage),
                         log |-> log]

\* InitializeFiducialSelection
FiducialSelection(raw, prior, ndebug, crash, garbage) ==
  LET fidcut == NormalizedCut(raw)
  IN  IF IsNoCut(fidcut)
        THEN [abort |-> FALSE, selector |-> prior, log |-> << >>]
        ELSE IF IsRockCut(fidcut)
          THEN RockBoxSelection(fidcut, prior, ndebug, crash, garbage)
          ELSE StandardSelection(fidcut, prior)

\* fTopVolume = fWorldVolume is reached in InitializeRockBoxSelection once the
\* cut has split into exactly two parts at ":".
RockSetsTopVolume(raw) ==
  /\ ~IsNoCut(NormalizedCut(raw))
  /\ IsRockCut(NormalizedCut(raw))
  /\ Len(Split(NormalizedCut(raw), {":"})) = 2

\* genie's box selector: a point is kept when it lies between the two
\* corners, and the sense is inverted by SetReverseFiducial(true)
BoxContains(lo, hi, pt) == \A k \in 1..3 : lo[k] <= pt[k] /\ pt[k] <= hi[k]

SelectorAccepts(sel, pt) ==
  BoxContains(SubSeq(sel.args, 1, 3), SubSeq(sel.args, 4, 6), pt) # sel.reverse

\* ------------------------------------------------------------ cut strings
Colon == <<":">>

RECURSIVE Join(_, _)
Join(tokens, sep) ==
  IF tokens = << >> THEN << >>
  ELSE IF Len(tokens) = 1 THEN tokens[1]
  ELSE tokens[1] \o sep \o Join(Tail(tokens), sep)

\* the decimal text of i, 0 <= i < 100
DigitChars == <<"0", "1", "2", "3", "4", "5", "6", "7", "8", "9">>
ValToken(i) ==
  IF i < 10 THEN <<DigitChars[i + 1]>>
  ELSE <<DigitChars[(i \div 10) + 1], DigitChars[(i % 10) + 1]>>

\* the value list "1,2,...,n"
ValText(n) == Join([i \in 1..n |-> ValToken(i)], <<",">>)

\* The cuts of the spill-accounting specification: no cut, and a rock box
\* with its six corner coordinates.
FiducialCuts == {sNone, sRock \o Colon \o ValText(RockMinVals)}

\* The cuts of the fiducial-selection specification.
MaxVals == 10
LeadWs == {<< >>, <<" ">>}
TrailWs == {<< >>, <<" ">>}
sCone == <<"c", "o", "n", "e">>
BareWords == {<< >>, sNone, <<"N", "O", "N", "E">>, <<"N", "o", "n", "e">>,
              sBox, sRock, sCone}
FlagTexts == {<< >>, <<"0">>, <<"m">>, <<"0", "M">>}
Keywords == {sZcyl, sBox, <<"B", "O", "X">>, sZpoly, sSphere, sRock, sCone,
             sBox \o sZcyl, sSphere \o sBox, sSphere \o sZpoly,
             sBox \o sRock, sRock \o sBox}
\* "6,(2,-1),1,0,{2,8}" is the zpoly example of the parameter's documentation
ValueTexts ==
  {ValText(n) : n \in 0..MaxVals}
  \cup {<<"6", ",", "(", "2", ",", "-", "1", ")", ",", "1", ",", "0", ",",
          "{", "2", ",", "8", "}">>,
        <<"0", ",", "0", ",", "0", ",", "5", ",", "5", ",", "5", ",", "0",
          ",", "9", ",", "3", ",", "2">>,
        <<"1", ":", "2">>}
BareCuts == {l \o w \o t : l \in LeadWs, w \in BareWords, t \in TrailWs}
TypedCuts ==
  {l \o f \o k \o Colon \o v :
     l \in LeadWs, f \in FlagTexts, k \in Keywords, v \in ValueTexts}
FidCutInputs == BareCuts \cup TypedCuts

\* ------------------------------------------------------ atmospheric files
\* The nested loops over fGenFlavors and fFluxFiles with the counters ctrfv
\* and ctrff; the result lists the SetFluxFile(flavour, file) calls by the
\* positions of flavour and file in iteration order.
RECURSIVE AtmoSetFluxFileCalls(_, _, _, _, _, _)
AtmoSetFluxFileCalls(nflv, nfile, flv, file, ctrfv, ctrff) ==
  IF flv > nflv THEN << >>
  ELSE IF file > nfile
    THEN AtmoSetFluxFileCalls(nflv, nfile, flv + 1, 1, ctrfv, ctrff)
  ELSE IF ctrfv = ctrff
    THEN << <<flv, file>> >>
         \o AtmoSetFluxFileCalls(nflv, nfile, flv, file + 1, ctrfv + 1,
                                 ctrff + 1)
    ELSE AtmoSetFluxFileCalls(nflv, nfile, flv, file + 1, ctrfv + 1, ctrff)

\* ------------------------------------------------------------ flux driver
\* The concrete flux driver InitializeFluxDriver's if / else-if chain news
\* for a flux type; fFluxD keeps the constructor's 0 when no branch matches.
FluxDriverClass(fluxType) ==
  CASE fluxType = "ntuple" -> "GNuMIFlux"
    [] fluxType = "simple_flux" -> "GSimpleNtpFlux"
    [] fluxType = "histogram" -> "GCylindTH1Flux"
    [] fluxType = "mono" -> "GMonoEnergeticFlux"
    [] fluxType = "atmo_FLUKA" -> "GFlukaAtmo3DFlux"
    [] fluxType = "atmo_BARTOL" -> "GBartolAtmoFlux"
    [] OTHER -> "null"

\* fFluxFiles is a std::set: its files are numbered 1..n in iteration order.
\* numiFlux->LoadBeamSimData(*fFluxFiles.begin(), fDetLocation), and the same
\* for simple_flux
LoadedFluxFiles(fluxType, nfiles) ==
  IF fluxType \in {"ntuple", "simple_flux"} /\ nfiles >= 1 THEN {1} ELSE {}

\* the elements of a std::set<int> in iteration order
RECURSIVE SortedSeq(_)
SortedSeq(S) ==
  IF S = {} THEN << >>
  ELSE LET m == CHOOSE x \in S : \A y \in S : x <= y
       IN  <<m>> \o SortedSeq(S \ {m})

\* for (i...) fGenFlavors.insert(genFlavors[i])
FlavorSet(flavors) == {flavors[i] : i \in 1..Len(flavors)}

\* the histogram names the constructor knows
HistFlavors == {12, -12, 14, -14, 16, -16}
HistName(code) ==
  CASE code = 12 -> "nue"
    [] code = -12 -> "nuebar"
    [] code = 14 -> "numu"
    [] code = -14 -> "numubar"
    [] code = 16 -> "nutau"
    [] code = -16 -> "nutaubar"

\* The contents of the flux file: the integral of each histogram.
HistIntegral == [nue |-> 1, nuebar |-> 2, numu |-> 4, numubar |-> 8,
                 nutau |-> 16, nutaubar |-> 32]

\* the loop of push_backs over fGenFlavors: a code outside the six known
\* ones pushes nothing
RECURSIVE HistogramsFor(_)
HistogramsFor(codes) ==
  IF codes = << >> THEN << >>
  ELSE (IF Head(codes) \in HistFlavors THEN <<HistName(Head(codes))>>
                                       ELSE << >>)
       \o HistogramsFor(Tail(codes))

CtorFluxHistograms(fluxType, flavors) ==
  IF fluxType = "histogram" THEN HistogramsFor(SortedSeq(FlavorSet(flavors)))
                            ELSE << >>

RECURSIVE SumIntegrals(_)
SumIntegrals(hists) ==
  IF hists = << >> THEN 0
  ELSE HistIntegral[Head(hists)] + SumIntegrals(Tail(hists))

\* fTotalHistFlux += fFluxHistograms[i]->Integral(): the member is not in
\* the initializer list, so the sum starts from whatever the memory held
\* (uninit) when the first += reads it.
CtorTotalHistFlux(hists, uninit) == uninit + SumIntegrals(hists)

\* What the memory of an unassigned double may hold.
UninitValues == {0, 64}

\* histFlux->AddEnergySpectrum(*i, fFluxHistograms[ctr]), ctr counting the
\* flavours in iteration order; past the end of the vector the pointer read
\* is indeterminate.
EnergySpectra(fluxType, flavors, hists) ==
  IF fluxType = "histogram"
    THEN LET codes == SortedSeq(FlavorSet(flavors))
         IN  [i \in 1..Len(codes) |->
                <<codes[i], IF i <= Len(hists) THEN hists[i]
                                              ELSE "indeterminate">>]
    ELSE << >>

\* ------------------------------------------------------------------- mixer
\* fMixerConfig.substr(0, fMixerConfig.find_first_of(" \t\n")) after the
\* leading-whitespace trim
MixerKeyword(cfg) ==
  LET trimmed == TrimLeading(cfg)
      pos == FindFirstOf(trimmed, WhiteSpace)
  IN  IF pos = Npos THEN trimmed ELSE SubSeq(trimmed, 1, pos)

sMap == <<"m", "a", "p">>
sSwap == <<"s", "w", "a", "p">>
sFixedFrac == <<"f", "i", "x", "e", "d", "f", "r", "a", "c">>
BuiltinMixers == {sMap, sSwap, sFixedFrac}

\* The GFlavorMixerI the keyword maps to: GFlavorMap for the three built-in
\* names, else what the mixer factory returns for it (factoryKnows), else 0.
MixerFor(keyword, factoryKnows) ==
  IF keyword \in BuiltinMixers THEN "GFlavorMap"
  ELSE IF factoryKnows THEN "factory mixer"
  ELSE "null"

\* Variant: without a mixer the bare flux driver is handed on.
FluxD2GMCJD_NoMixerNoBlender(cfg, fluxD, baseline, factoryKnows) ==
  IF MixerKeyword(cfg) = sNone \/ MixerFor(MixerKeyword(cfg), factoryKnows) = "null"
    THEN [kind |-> "flux", source |-> fluxD, mixer |-> "null", baseline |-> 0]
    ELSE [kind |-> "GFluxBlender", source |-> fluxD,
          mixer |-> MixerFor(MixerKeyword(cfg), factoryKnows),
          baseline |-> baseline]

\* fFluxD2GMCJD: the bare flux driver for the keyword "none", else a
\* GFluxBlender that adopts the flux driver and the mixer (possibly 0).
FluxD2GMCJD(cfg, fluxD, baseline, factoryKnows) ==
  IF MixerKeyword(cfg) = sNone
    THEN [kind |-> "flux", source |-> fluxD, mixer |-> "null", baseline |-> 0]
    ELSE [kind |-> "GFluxBlender", source |-> fluxD,
          mixer |-> MixerFor(MixerKeyword(cfg), factoryKnows),
          baseline |-> baseline]

\* the mf::LogWarning of the mixer section
MixerLog(cfg, factoryKnows) ==
  IF MixerKeyword(cfg) # sNone
     /\ MixerFor(MixerKeyword(cfg), factoryKnows) = "null"
    THEN <<"warning: no mixer class">>
    ELSE << >>

\* fMixerConfig is trimmed in place, and loses the keyword when the factory
\* made the mixer.
MixerConfigAfter(cfg, factoryKnows) ==
  LET trimmed == TrimLeading(cfg)
      keyword == MixerKeyword(cfg)
  IN  IF keyword # sNone /\ keyword \notin BuiltinMixers /\ factoryKnows
        THEN TrimLeading(SubSeq(trimmed, Len(keyword) + 1, Len(trimmed)))
        ELSE trimmed

\* ---------------------------------------------------------- ConfigGeomScan
sDefault == <<"d", "e", "f", "a", "u", "l", "t">>
sFile == <<"f", "i", "l", "e">>
sFlux == <<"f", "l", "u", "x">>
ScanPadSize == 4
ScanMinCount == 10

\* The scan parameters ROOTGeomAnalyzer is built with.
GeomNPoints == 200
GeomNRays == 200
GeomNParticles == 10000
BuiltinScanner ==
  [npoints |-> GeomNPoints, nrays |-> GeomNRays,
   nparticles |-> GeomNParticles, flux |-> "unset", safety |-> 0,
   maxPathLengths |-> << >>, writeout |-> FALSE]

\* Variant: an empty scan string is taken for "default" as well.
ScanIsDefault_OrEmpty(scan) == scan = << >> \/ Contains(scan, sDefault)

\* if ( fGeomScan.find("default") != std::string::npos ) return;
ScanIsDefault(scan) == Contains(scan, sDefault)

\* for ( size_t nadd = 0; nadd < 4-nvals; ++nadd ) vals.push_back(0);
\* as in the fiducial selection, 4-nvals wraps for nvals > 4.
ScanPadThrows(nvals) == nvals > ScanPadSize

ScanPadValues(vals) == vals \o [i \in 1..(ScanPadSize - Len(vals)) |-> 0]

\* if ( np <= 10 ) np = rgeom->ScannerN...();
ScanCount(requested, builtin) ==
  IF requested <= ScanMinCount THEN builtin ELSE requested

\* the tail of ConfigGeomScan: safety factor and the audit switch
ScanFinish(scn, safetyfactor, writeout) ==
  [scn EXCEPT
     !.safety = IF safetyfactor > 0 THEN safetyfactor ELSE @,
     !.writeout = (writeout # 0) \/ @]

\* the "box" branch
ScanBox(scn, nvals, vals) ==
  ScanFinish([scn EXCEPT !.npoints = ScanCount(vals[1], @),
                             !.nrays = ScanCount(vals[2], @)],
             IF nvals >= 3 THEN vals[3] ELSE 0,
             IF nvals >= 4 THEN vals[4] ELSE 0)

\* the "flux" branch: rgeom->SetScannerFlux(fFluxD)
ScanFlux(scn, nvals, vals, fluxD) ==
  ScanFinish([scn EXCEPT !.flux = fluxD,
                             !.nparticles = ScanCount(vals[1], @)],
             IF nvals >= 2 THEN vals[2] ELSE 0,
             IF nvals >= 3 THEN vals[3] ELSE 0)

\* ConfigGeomScan past the "default" test.  An unknown method is logged and
\* stopped by assert(0), which a build with NDEBUG runs through; a "file"
\* method without a file name reads strtok[1] past the end of the vector.
ScanConfigured(scan, scn, fluxD, ndebug, crash) ==
  LET strtok == Split(scan, {" "})
      method == strtok[1]
      vals == ParseValues(Tail(strtok))
      nvals == Len(vals)
  IN  IF Contains(method, sFile)
        THEN IF Len(strtok) < 2
               THEN [abort |-> crash, log |-> << >>,
                     scanner |-> [scn EXCEPT
                                    !.maxPathLengths = <<"indeterminate">>]]
               ELSE [abort |-> FALSE, log |-> << >>,
                     scanner |-> [scn EXCEPT !.maxPathLengths = strtok[2]]]
      ELSE IF ScanPadThrows(nvals)
        THEN [abort |-> TRUE, log |-> << >>, scanner |-> scn]
      ELSE IF Contains(method, sBox)
        THEN [abort |-> FALSE, log |-> << >>,
              scanner |-> ScanBox(scn, nvals, ScanPadValues(vals))]
      ELSE IF Contains(method, sFlux)
        THEN [abort |-> FALSE, log |-> << >>,
              scanner |-> ScanFlux(scn, nvals, ScanPadValues(vals), fluxD)]
      ELSE [abort |-> ~ndebug, log |-> <<"error: unknown method">>,
            scanner |-> scn]

\* ConfigGeomScan
ConfigGeomScan(raw, scn, fluxD, ndebug, crash) ==
  IF ScanIsDefault(TrimLeading(raw))
    THEN [abort |-> FALSE, log |-> << >>, scanner |-> scn]
    ELSE ScanConfigured(ToLower(TrimLeading(raw)), scn, fluxD, ndebug, crash)

\* fGeomScan is trimmed, and past the "default" test lowercased, in place
GeomScanAfter(raw) ==
  IF ScanIsDefault(TrimLeading(raw)) THEN TrimLeading(raw)
                                     ELSE ToLower(TrimLeading(raw))

\* ------------------------------------------------- state at construction
\* fTotalHistFlux before anything is written to it
Unassigned == [assigned |-> FALSE, value |-> 0]

\* fFluxD2GMCJD (0) of the initializer list
NullFluxD2GMCJD ==
  [kind |-> "null", source |-> "null", mixer |-> "null", baseline |-> 0]

\* The flavour lists of the spill-accounting specification.
DefaultFlavors == <<12, 14, 16, -12, -14, -16>>

\* ------------------------------------------------------------------ View2D
\* The eight kinds of drawable object: view v keeps the list f<t>L and the
\* class keeps the static list fg<t>L for each kind t.
DrawableTypes == {"Marker", "PolyMarker", "Line", "PolyLine", "Arc", "Box",
                  "Text", "Latex"}
MaxViews == 2
MaxDrawables == 2
Views == 1..MaxViews
\* the argument values an Add call may be given
Settings == {1, 2}

RECURSIVE SumOver(_, _)
SumOver(f, S) ==
  IF S = {} THEN 0
  ELSE LET x == CHOOSE y \in S : TRUE
       IN  f[x] + SumOver(f, S \ {x})

\* the number of objects of kind t made with new
Allocated(t) == Len(drawable[t])
TotalAllocated == SumOver([t \in DrawableTypes |-> Allocated(t)], DrawableTypes)
\* the number of objects of kind t on the lists of the views
Held(lists, t) == SumOver([v \in Views |-> Len(lists[v][t])], Views)

\* no view exists and no object was ever made
EmptyLists == [t \in DrawableTypes |-> << >>]
NoViews ==
  /\ fL = [v \in Views |-> EmptyLists]
  /\ fgL = EmptyLists
  /\ drawable = EmptyLists
  /\ alive = [v \in Views |-> FALSE]
  /\ maxHeld = [t \in DrawableTypes |-> 0]

\* View2D::View2D()
View2DCtor(v) ==
  /\ ~alive[v]
  /\ alive' = [alive EXCEPT ![v] = TRUE]
  /\ fL' = [fL EXCEPT ![v] = EmptyLists]
  /\ UNCHANGED <<fgL, drawable, maxHeld, helper>>

\* fg<t>L.splice(fg<t>L.end(), f<t>L): the elements of src are moved to the
\* end of dst, and src is left empty
SpliceTarget(dst, src) == dst \o src
\* Variant: the elements are copied and stay on the view's list.
SpliceSource_Copy(src) == src

SpliceSource(src) == << >>

\* View2D::Clear()
ClearLists(v) ==
  /\ fgL' = [t \in DrawableTypes |-> SpliceTarget(fgL[t], fL[v][t])]
  /\ fL' = [fL EXCEPT ![v] = [t \in DrawableTypes |-> SpliceSource(fL[v][t])]]

Clear(v) ==
  /\ alive[v]
  /\ ClearLists(v)
  /\ UNCHANGED <<drawable, alive, maxHeld, helper>>

\* View2D::~View2D()
View2DDtor(v) ==
  /\ alive[v]
  /\ ClearLists(v)
  /\ alive' = [alive EXCEPT ![v] = FALSE]
  /\ UNCHANGED <<drawable, maxHeld, helper>>

\* Variant: every Add makes a new object.
AddedObject_AlwaysNew(t) == Allocated(t) + 1

\* The object an Add function hands out: a new one when the static list is
\* empty, else fg<t>L.back().
AddedObject(t) ==
  IF fgL[t] = << >> THEN Allocated(t) + 1 ELSE fgL[t][Len(fgL[t])]

\* fg<t>L.pop_back() in the else branch
PoolAfterAdd(t) ==
  IF fgL[t] = << >> THEN fgL[t] ELSE SubSeq(fgL[t], 1, Len(fgL[t]) - 1)

\* The pattern every Add function follows; s stands for its arguments, to
\* which the object is constructed or reset.
Add(v, t, s) ==
  /\ alive[v]
  /\ fgL[t] # << >> \/ TotalAllocated < MaxDrawables
  /\ LET m == AddedObject(t)
     IN  /\ drawable' = [drawable EXCEPT ![t] =
                           IF m > Len(@) THEN Append(@, s)
                                         ELSE [@ EXCEPT ![m] = s]]
         /\ fL' = [fL EXCEPT ![v][t] = Append(@, m)]
  /\ fgL' = [fgL EXCEPT ![t] = PoolAfterAdd(t)]
  /\ maxHeld' = [maxHeld EXCEPT ![t] =
                   IF Held(fL', t) > @ THEN Held(fL', t) ELSE @]
  /\ UNCHANGED <<alive, helper>>

AddMarker(v, s) == Add(v, "Marker", s)
AddPolyMarker(v, s) == Add(v, "PolyMarker", s)
AddLine(v, s) == Add(v, "Line", s)
AddPolyLine(v, s) == Add(v, "PolyLine", s)
AddArc(v, s) == Add(v, "Arc", s)
AddBox(v, s) == Add(v, "Box", s)
AddText(v, s) == Add(v, "Text", s)
AddLatex(v, s) == Add(v, "Latex", s)

\* --------------------------------------------------------------------- Init
\* The configuration (fhicl::ParameterSet) the constructor is handed, and the
\* member initialisers of the constructor.
Init ==
  /\ pc = "config"
  /\ fFluxType \in FluxTypes
  /\ fEventsPerSpill \in 0..MaxEventsPerSpill
  /\ fPOTPerSpill \in {1, MaxPOTPerSpill}
  /\ fTopVolume \in TopVolumes
  /\ fWorldVolume = "volWorld"
  /\ fFiducialCut \in FiducialCuts
  /\ genFlavorsSize \in (IF IsAtmo THEN 1..MaxCounts ELSE {1})
  /\ fFluxFilesSize \in (IF IsAtmo THEN 1..MaxCounts ELSE {1})
  /\ fHistEventsPerSpill = 0
  /\ fSpillEvents = 0
  /\ fSpillExposure = 0
  /\ fTotalExposure = 0
  /\ UsedPOTs = 0
  /\ NFluxNeutrinos = 0
  /\ GlobProbScale = 1
  /\ geoTopVolume = "volWorld"
  /\ NDEBUG = FALSE
  /\ geomVolSelector = NoSelector
  /\ fidLog = << >>
  /\ atmoFluxFiles = << >>
  /\ genFlavors = SubSeq(DefaultFlavors, 1, genFlavorsSize)
  /\ fMixerBaseline = 0
  /\ fMixerConfig = sNone
  /\ fGeomScan = sDefault
  /\ fFluxHistograms = << >>
  /\ fTotalHistFlux = Unassigned
  /\ energySpectra = << >>
  /\ loadedFluxFiles = {}
  /\ fFluxD = "null"
  /\ fFluxD2GMCJD = NullFluxD2GMCJD
  /\ mixerLog = << >>
  /\ scanner = BuiltinScanner
  /\ scanLog = << >>
  /\ initTrace = << >>
  /\ lastOp = "none"
  /\ lastRet = FALSE
  /\ topVolAtGenerate = "volWorld"
  /\ nSpills = 0
  /\ nSuccess = 0
  /\ NoViews

\* ------------------------------------------------------------- constructor
\* Variant: the EventsPerSpill test of the atmospheric branch is left out.
CtorExits_NoSpillCheck == IsAtmo /\ genFlavorsSize # fFluxFilesSize

\* exit(1) for an atmospheric flux whose flavour and file counts differ or
\* whose EventsPerSpill is not 1.
CtorExits ==
  IsAtmo /\ (genFlavorsSize # fFluxFilesSize \/ fEventsPerSpill # 1)

\* Variant: the configured EventsPerSpill is kept for "mono".
CtorEventsPerSpill_NoForce == fEventsPerSpill

\* "mono" forces one event per spill.
CtorEventsPerSpill == IF IsMono THEN 1 ELSE fEventsPerSpill

GENIEHelperCtor ==
  /\ pc = "config"
  /\ IF CtorExits
       THEN /\ pc' = "exited"
            /\ UNCHANGED <<fEventsPerSpill, histograms>>
       ELSE /\ pc' = "constructed"
            /\ fEventsPerSpill' = CtorEventsPerSpill
            /\ fFluxHistograms' = CtorFluxHistograms(fFluxType, genFlavors)
            /\ IF IsHistogram /\ fFluxHistograms' # << >>
                 THEN \E uninit \in UninitValues :
                        fTotalHistFlux' =
                          [assigned |-> TRUE,
                           value |-> CtorTotalHistFlux(fFluxHistograms', uninit)]
                 ELSE UNCHANGED fTotalHistFlux
  /\ lastOp' = "ctor"
  /\ UNCHANGED display
  /\ UNCHANGED <<fFluxType, fPOTPerSpill, fFiducialCut, genFlavorsSize,
                 fFluxFilesSize, NDEBUG, genFlavors, fMixerBaseline, spill,
                 driver, geometry, selection, fluxSetup, scanSetup, lastRet,
                 nSpills, nSuccess>>

\* -------------------------------------------------------------- Initialize
\* InitializeFiducialSelection hands a cut containing "rock" to
\* InitializeRockBoxSelection, which sets fTopVolume = fWorldVolume.
\* Variant: every cut that contains "rock" replaces the top volume.
InitTopVolume_AnyRock ==
  IF IsRockCut(NormalizedCut(fFiducialCut)) THEN fWorldVolume ELSE fTopVolume

InitTopVolume ==
  IF RockSetsTopVolume(fFiducialCut) THEN fWorldVolume ELSE fTopVolume

\* What the out-of-bounds reads of a short rock value list may yield.
GarbageValues == {0, 9}

\* InitializeFluxDriver's SetFluxFile calls
InitAtmoFluxFiles ==
  IF IsAtmo
    THEN AtmoSetFluxFileCalls(genFlavorsSize, fFluxFilesSize, 1, 1, 0, 0)
    ELSE << >>

\* The Poisson draw of the per-spill target is made only for a histogram
\* flux with fEventsPerSpill < 0.01.
InitDrawsHistEvents == IsHistogram /\ fEventsPerSpill < 1

\* The stages of Initialize(), in the order of its calls.
InitStages == <<"InitializeGeometry", "InitializeFluxDriver", "UseFluxDriver",
                "UseGeomAnalyzer", "ConfigGeomScan", "Configure">>

\* The histogram branch reads fFluxHistograms[ctr] past the end of the
\* vector when fewer histograms than flavours were loaded; the read may
\* crash.
FluxDriverCrashes(crash) ==
  /\ IsHistogram
  /\ Len(fFluxHistograms) < Cardinality(FlavorSet(genFlavors))
  /\ crash

Initialize ==
  /\ pc = "constructed"
  /\ \E crash \in BOOLEAN, garbage \in GarbageValues, factoryKnows \in BOOLEAN :
       LET fid == FiducialSelection(fFiducialCut, geomVolSelector, NDEBUG,
                                    crash, garbage)
           fluxD == FluxDriverClass(fFluxType)
           scan == ConfigGeomScan(fGeomScan, scanner, fluxD, NDEBUG, crash)
       IN  /\ fTopVolume' = InitTopVolume
           /\ geomVolSelector' = fid.selector
           /\ fidLog' = fid.log
           /\ IF fid.abort
                \* InitializeGeometry never returns: nothing after it runs
                THEN /\ pc' = "aborted"
                     /\ initTrace' = SubSeq(InitStages, 1, 1)
                     /\ UNCHANGED <<spill, driver, atmoFluxFiles, nSpills,
                                    nSuccess, fluxSetup, fGeomScan, scanner,
                                    scanLog>>
              ELSE IF FluxDriverCrashes(crash)
                THEN /\ pc' = "aborted"
                     /\ initTrace' = SubSeq(InitStages, 1, 2)
                     /\ UNCHANGED <<spill, driver, atmoFluxFiles, nSpills,
                                    nSuccess, fluxSetup, fGeomScan, scanner,
                                    scanLog>>
              ELSE /\ atmoFluxFiles' = InitAtmoFluxFiles
                   /\ loadedFluxFiles' = LoadedFluxFiles(fFluxType,
                                                         fFluxFilesSize)
                   /\ energySpectra' = EnergySpectra(fFluxType, genFlavors,
                                                     fFluxHistograms)
                   /\ fFluxD' = fluxD
                   /\ fFluxD2GMCJD' = FluxD2GMCJD(fMixerConfig, fluxD,
                                                  fMixerBaseline, factoryKnows)
                   /\ fMixerConfig' = MixerConfigAfter(fMixerConfig,
                                                      factoryKnows)
                   /\ mixerLog' = MixerLog(fMixerConfig, factoryKnows)
                   /\ fGeomScan' = GeomScanAfter(fGeomScan)
                   /\ scanner' = scan.scanner
                   /\ scanLog' = scan.log
                   /\ IF scan.abort
                        THEN /\ pc' = "aborted"
                             /\ initTrace' = SubSeq(InitStages, 1, 5)
                             /\ UNCHANGED <<spill, driver, nSpills, nSuccess>>
                        ELSE /\ pc' = "ready"
                             /\ initTrace' = InitStages
                             /\ GlobProbScale' \in {1, MaxProbScale}
                             \* flux rays may be consumed while the geometry
                             \* is scanned; they are not handed back
                             /\ UsedPOTs' \in (IF IsNtuple THEN 0..MaxStep
                                                          ELSE {0})
                             /\ NFluxNeutrinos' \in (IF IsAtmo THEN 0..MaxStep
                                                               ELSE {0})
                             /\ fHistEventsPerSpill' \in
                                  (IF InitDrawsHistEvents
                                     THEN 0..MaxPoisson
                                     ELSE {fHistEventsPerSpill})
                             /\ fSpillEvents' = 0
                             /\ fSpillExposure' = 0
                             /\ fTotalExposure' = 0
                             /\ nSpills' = 0
                             /\ nSuccess' = 0
  /\ lastOp' = "Initialize"
  /\ UNCHANGED display
  /\ UNCHANGED <<config, histograms, fWorldVolume, geoTopVolume,
                 topVolAtGenerate, lastRet>>

\* -------------------------------------------------------------------- Stop
\* Variant: event-count comparisons written with <= instead of <.
StopReturnsFalse_OffByOne ==
  IF IsAtmo
    THEN fEventsPerSpill > 0 /\ fSpillEvents < fEventsPerSpill
    ELSE IF fEventsPerSpill > 0
      THEN fSpillEvents <= fEventsPerSpill
      ELSE IF IsNtuple /\ fSpillExposure < fPOTPerSpill
        THEN TRUE
        ELSE IsHistogram /\ fSpillEvents < fHistEventsPerSpill

\* Variant: the atmospheric branch never holds the spill open.
StopReturnsFalse_AtmoNoCount ==
  IF IsAtmo
    THEN FALSE
    ELSE IF fEventsPerSpill > 0
      THEN fSpillEvents < fEventsPerSpill
      ELSE IF IsNtuple /\ fSpillExposure < fPOTPerSpill
        THEN TRUE
        ELSE IsHistogram /\ fSpillEvents < fHistEventsPerSpill

\* Variant: the exposure-driven tests written with <= instead of <.
StopReturnsFalse_ExposureStrict ==
  IF IsAtmo
    THEN fEventsPerSpill > 0 /\ fSpillEvents < fEventsPerSpill
    ELSE IF fEventsPerSpill > 0
      THEN fSpillEvents < fEventsPerSpill
      ELSE IF IsNtuple /\ fSpillExposure <= fPOTPerSpill
        THEN TRUE
        ELSE IsHistogram /\ fSpillEvents <= fHistEventsPerSpill

\* The conditions under which Stop() returns false (keep throwing neutrinos
\* for this spill).
StopReturnsFalse ==
  IF IsAtmo
    THEN fEventsPerSpill > 0 /\ fSpillEvents < fEventsPerSpill
    ELSE IF fEventsPerSpill > 0
      THEN fSpillEvents < fEventsPerSpill
      ELSE IF IsNtuple /\ fSpillExposure < fPOTPerSpill
        THEN TRUE
        ELSE IsHistogram /\ fSpillEvents < fHistEventsPerSpill

\* Variant: the histogram spill is not booked at the nominal fPOTPerSpill.
ClosingSpillExposure_NoForce == fSpillExposure

\* fSpillExposure as the counter-reset code finds it: an exposure-driven
\* histogram spill is booked at the nominal fPOTPerSpill.
ClosingSpillExposure ==
  IF ~IsAtmo /\ ~(fEventsPerSpill > 0) /\ ~IsNtuple /\ IsHistogram
    THEN fPOTPerSpill
    ELSE fSpillExposure

\* 1e4 * NFluxNeutrinos / (pi * Rt^2)
AtmoExposure(n) == (UnitsFactor * n * PiDen) \div (PiNum * fAtmoRt * fAtmoRt)

\* Variant: the spill exposure is assigned to the total, not accumulated.
ClosedTotalExposure_Assign ==
  IF IsAtmo
    THEN AtmoExposure(NFluxNeutrinos)
    ELSE ClosingSpillExposure

\* Variant: the atmospheric exposure is accumulated, not assigned.
ClosedTotalExposure_AtmoAdds ==
  IF IsAtmo
    THEN fTotalExposure + AtmoExposure(NFluxNeutrinos)
    ELSE fTotalExposure + ClosingSpillExposure

\* fTotalExposure after the spill is closed.
ClosedTotalExposure ==
  IF IsAtmo
    THEN AtmoExposure(NFluxNeutrinos)
    ELSE fTotalExposure + ClosingSpillExposure

\* Variant: the event counter is not reset on closure.
StopSpillEvents_NoReset == fSpillEvents

StopSpillEvents == IF StopReturnsFalse THEN fSpillEvents ELSE 0

\* Variant: the histogram booking fSpillExposure = fPOTPerSpill is made
\* before the test that may return false.
StopSpillExposure_ForceFirst ==
  IF StopReturnsFalse
    THEN (IF IsHistogram /\ ~(fEventsPerSpill > 0) THEN fPOTPerSpill
                                                   ELSE fSpillExposure)
    ELSE 0

StopSpillExposure == IF StopReturnsFalse THEN fSpillExposure ELSE 0

StopTotalExposure ==
  IF StopReturnsFalse THEN fTotalExposure ELSE ClosedTotalExposure

\* gRandom->Poisson(fXSecMassPOT*fTotalHistFlux), drawn on every closure
StopHistEventsPerSpill ==
  IF StopReturnsFalse THEN {fHistEventsPerSpill} ELSE 0..MaxPoisson

Stop ==
  /\ pc = "ready"
  /\ StopReturnsFalse \/ nSpills < MaxSpills
  /\ fSpillEvents' = StopSpillEvents
  /\ fSpillExposure' = StopSpillExposure
  /\ fTotalExposure' = StopTotalExposure
  /\ fHistEventsPerSpill' \in StopHistEventsPerSpill
  /\ lastOp' = "Stop"
  /\ UNCHANGED display
  /\ lastRet' = ~StopReturnsFalse
  /\ nSpills' = IF StopReturnsFalse THEN nSpills ELSE nSpills + 1
  /\ nSuccess' = IF StopReturnsFalse THEN nSuccess ELSE 0
  /\ UNCHANGED <<pc, config, driver, geometry, selection, setup>>

\* ------------------------------------------------------------------ Sample
\* Variant: the cumulative exposure is stored without subtracting what is
\* already booked in fTotalExposure.
SampleSpillExposure_Absolute(used) ==
  IF IsNtuple
    THEN used \div GlobProbScale
    ELSE fSpillExposure

\* fSpillExposure after the flux information is packed; used is the flux
\* driver's cumulative UsedPOTs() after this GenerateEvent().
SampleSpillExposure(used) ==
  IF IsNtuple
    THEN (used \div GlobProbScale) - fTotalExposure
    ELSE fSpillExposure

\* Variant: ntuple events are counted whatever fEventsPerSpill is.
SampleCountsEvent_NtupleAlways ==
  \/ IsNtuple
  \/ IsHistogram
  \/ IsMono
  \/ IsAtmo /\ fEventsPerSpill > 0

\* Whether a viable interaction is counted in fSpillEvents.
SampleCountsEvent ==
  \/ fEventsPerSpill > 0 /\ IsNtuple
  \/ IsHistogram
  \/ IsMono
  \/ IsAtmo /\ fEventsPerSpill > 0

\* Variant: the event is counted before the viability test.
SampleSpillEvents_Always(viable) ==
  IF SampleCountsEvent THEN fSpillEvents + 1 ELSE fSpillEvents

SampleSpillEvents(viable) ==
  IF viable /\ SampleCountsEvent THEN fSpillEvents + 1 ELSE fSpillEvents

\* The geometry's top volume when Sample() returns: the reset to the world
\* volume is the last statement before "return true".
SampleGeoTopVolume(viable) == IF viable THEN fWorldVolume ELSE fTopVolume

Sample ==
  /\ pc = "ready"
  /\ \E viable \in BOOLEAN, step \in 0..MaxStep :
       /\ IsNtuple \/ IsAtmo \/ step = 0
       /\ IsNtuple => UsedPOTs + step <= MaxUsed
       /\ IsAtmo => NFluxNeutrinos + step <= MaxUsed
       /\ viable => nSuccess < MaxSpillEvents
       /\ UsedPOTs' = IF IsNtuple THEN UsedPOTs + step ELSE UsedPOTs
       /\ NFluxNeutrinos' = IF IsAtmo THEN NFluxNeutrinos + step
                                      ELSE NFluxNeutrinos
       /\ topVolAtGenerate' = fTopVolume
       /\ fSpillExposure' = SampleSpillExposure(UsedPOTs')
       /\ fSpillEvents' = SampleSpillEvents(viable)
       /\ geoTopVolume' = SampleGeoTopVolume(viable)
       /\ lastRet' = viable
       /\ nSuccess' = IF viable THEN nSuccess + 1 ELSE nSuccess
  /\ lastOp' = "Sample"
  /\ UNCHANGED display
  /\ UNCHANGED <<pc, config, fTotalExposure, fHistEventsPerSpill,
                 GlobProbScale, fTopVolume, fWorldVolume, nSpills, selection,
                 setup>>

\* ----------------------------------------------------------- specification
Next ==
  \/ GENIEHelperCtor
  \/ Initialize
  \/ Sample
  \/ Stop

Spec == Init /\ [][Next]_vars

\* The fiducial-selection specification: a "mono" helper is constructed and
\* initialized once for every cut string of FidCutInputs, in a build with
\* and in a build without assertions.
FidInit ==
  /\ pc = "config"
  /\ fFluxType = "mono"
  /\ fEventsPerSpill = 1
  /\ fPOTPerSpill = 1
  /\ fTopVolume \in TopVolumes
  /\ fWorldVolume = "volWorld"
  /\ fFiducialCut \in FidCutInputs
  /\ genFlavorsSize = 1
  /\ fFluxFilesSize = 1
  /\ fHistEventsPerSpill = 0
  /\ fSpillEvents = 0
  /\ fSpillExposure = 0
  /\ fTotalExposure = 0
  /\ UsedPOTs = 0
  /\ NFluxNeutrinos = 0
  /\ GlobProbScale = 1
  /\ geoTopVolume = "volWorld"
  /\ NDEBUG \in BOOLEAN
  /\ geomVolSelector = NoSelector
  /\ fidLog = << >>
  /\ atmoFluxFiles = << >>
  /\ genFlavors = SubSeq(DefaultFlavors, 1, genFlavorsSize)
  /\ fMixerBaseline = 0
  /\ fMixerConfig = sNone
  /\ fGeomScan = sDefault
  /\ fFluxHistograms = << >>
  /\ fTotalHistFlux = Unassigned
  /\ energySpectra = << >>
  /\ loadedFluxFiles = {}
  /\ fFluxD = "null"
  /\ fFluxD2GMCJD = NullFluxD2GMCJD
  /\ mixerLog = << >>
  /\ scanner = BuiltinScanner
  /\ scanLog = << >>
  /\ initTrace = << >>
  /\ lastOp = "none"
  /\ lastRet = FALSE
  /\ topVolAtGenerate = "volWorld"
  /\ nSpills = 0
  /\ nSuccess = 0
  /\ NoViews

FidNext ==
  \/ GENIEHelperCtor
  \/ Initialize

FidSpec == FidInit /\ [][FidNext]_vars

\* The geometry-scan specification: a helper of every flux type, and of a
\* flux type the driver chain does not know, is constructed and initialized
\* once for every scan string of ScanInputs.
MaxScanVals == 6
UnknownFluxTypes == {"gsimple"}
ScanValText(n) == Join([i \in 1..n |-> ValToken(10 * i + 5)], <<" ">>)
ScanValueTexts ==
  {ScanValText(n) : n \in 0..MaxScanVals}
  \cup {<<"5", " ", "5">>, <<"1", "5", " ", "2", "5", " ", "0", " ", "0">>}
ScanMethods == {sBox, sFlux, <<"F", "l", "u", "x">>, sCone}
BareScans == {<< >>, <<" ">>, sDefault, <<"D", "E", "F", "A", "U", "L", "T">>,
              sFile \o <<" ", "m", "p", "l", ".", "x", "m", "l">>, sFile}
\* the fiducial cuts that go with them: none, and a zpoly with fewer values
\* than, as many as, and more than the padded size
ScanFidCuts == {sNone} \cup {sZpoly \o Colon \o ValText(n) :
                               n \in {3, PadSize, PadSize + 1}}
ScanInputs ==
  {l \o b : l \in LeadWs, b \in BareScans}
  \cup {l \o m \o <<" ">> \o v :
          l \in LeadWs, m \in ScanMethods, v \in ScanValueTexts}

ScanInit ==
  /\ pc = "config"
  /\ fFluxType \in FluxTypes \cup UnknownFluxTypes
  /\ fEventsPerSpill = 1
  /\ fPOTPerSpill = 1
  /\ fTopVolume = "volDetector"
  /\ fWorldVolume = "volWorld"
  /\ fFiducialCut \in ScanFidCuts
  /\ genFlavorsSize = 1
  /\ fFluxFilesSize = 1
  /\ fHistEventsPerSpill = 0
  /\ fSpillEvents = 0
  /\ fSpillExposure = 0
  /\ fTotalExposure = 0
  /\ UsedPOTs = 0
  /\ NFluxNeutrinos = 0
  /\ GlobProbScale = 1
  /\ geoTopVolume = "volWorld"
  /\ NDEBUG \in BOOLEAN
  /\ geomVolSelector = NoSelector
  /\ fidLog = << >>
  /\ atmoFluxFiles = << >>
  /\ genFlavors = SubSeq(DefaultFlavors, 1, genFlavorsSize)
  /\ fMixerBaseline = 0
  /\ fMixerConfig = sNone
  /\ fGeomScan \in ScanInputs
  /\ fFluxHistograms = << >>
  /\ fTotalHistFlux = Unassigned
  /\ energySpectra = << >>
  /\ loadedFluxFiles = {}
  /\ fFluxD = "null"
  /\ fFluxD2GMCJD = NullFluxD2GMCJD
  /\ mixerLog = << >>
  /\ scanner = BuiltinScanner
  /\ scanLog = << >>
  /\ initTrace = << >>
  /\ lastOp = "none"
  /\ lastRet = FALSE
  /\ topVolAtGenerate = "volWorld"
  /\ nSpills = 0
  /\ nSuccess = 0
  /\ NoViews

ScanNext ==
  \/ GENIEHelperCtor
  \/ Initialize

ScanSpec == ScanInit /\ [][ScanNext]_vars

\* The flux-driver specification: a helper of every flux type is constructed
\* and initialized for one to MaxCounts flux files, the flavour lists of
\* FlavorLists (with a repeated code, and with the code 13 for which there
\* is no histogram) and the mixer configurations of MixerInputs.
FlavorLists == {<<14>>, <<12, 14>>, <<14, 12>>, <<14, 14>>, <<14, -14, 12>>,
                <<13, 14>>, DefaultFlavors}
MixerKeywords == {sNone, <<"N", "O", "N", "E">>, << >>, sMap, sSwap,
                  sFixedFrac, <<"M", "y", "M", "i", "x", "e", "r">>}
MixerRests == {<< >>, <<" ", "1", "2", ":", "1", "4">>}
MixerInputs ==
  {l \o k \o r : l \in LeadWs, k \in MixerKeywords, r \in MixerRests}

FluxInit ==
  /\ pc = "config"
  /\ fFluxType \in FluxTypes
  /\ fEventsPerSpill = 1
  /\ fPOTPerSpill = 1
  /\ fTopVolume = "volDetector"
  /\ fWorldVolume = "volWorld"
  /\ fFiducialCut = sNone
  /\ genFlavors \in FlavorLists
  /\ genFlavorsSize = Len(genFlavors)
  /\ fFluxFilesSize \in 1..MaxCounts
  /\ fHistEventsPerSpill = 0
  /\ fSpillEvents = 0
  /\ fSpillExposure = 0
  /\ fTotalExposure = 0
  /\ UsedPOTs = 0
  /\ NFluxNeutrinos = 0
  /\ GlobProbScale = 1
  /\ geoTopVolume = "volWorld"
  /\ NDEBUG = FALSE
  /\ geomVolSelector = NoSelector
  /\ fidLog = << >>
  /\ atmoFluxFiles = << >>
  /\ fMixerBaseline \in {0, 7}
  /\ fMixerConfig \in MixerInputs
  /\ fGeomScan = sDefault
  /\ fFluxHistograms = << >>
  /\ fTotalHistFlux = Unassigned
  /\ energySpectra = << >>
  /\ loadedFluxFiles = {}
  /\ fFluxD = "null"
  /\ fFluxD2GMCJD = NullFluxD2GMCJD
  /\ mixerLog = << >>
  /\ scanner = BuiltinScanner
  /\ scanLog = << >>
  /\ initTrace = << >>
  /\ lastOp = "none"
  /\ lastRet = FALSE
  /\ topVolAtGenerate = "volWorld"
  /\ nSpills = 0
  /\ nSuccess = 0
  /\ NoViews

FluxNext ==
  \/ GENIEHelperCtor
  \/ Initialize

FluxSpec == FluxInit /\ [][FluxNext]_vars

\* The rock-box specification: a "mono" helper whose top volume is
\* volDetector is constructed, initialized and sampled for the rock cuts of
\* RockCutInputs: no ":", fewer than RockMinVals values, the two corners, a
\* rockOnly flag of 7 and of 0, all ten values, and two ":".
RockKeywords == {sRock, sRock \o sBox}
RockCorners == ValText(RockMinVals)
RockCases ==
  {[tail |-> << >>, colon |-> FALSE, nvals |-> 0, rockOnly |-> TRUE],
   [tail |-> Colon \o ValText(3), colon |-> TRUE, nvals |-> 3,
    rockOnly |-> TRUE],
   [tail |-> Colon \o RockCorners, colon |-> TRUE, nvals |-> RockMinVals,
    rockOnly |-> TRUE],
   [tail |-> Colon \o ValText(RockMinVals + 1), colon |-> TRUE,
    nvals |-> RockMinVals + 1, rockOnly |-> TRUE],
   [tail |-> Colon \o RockCorners \o <<",", "0">>, colon |-> TRUE,
    nvals |-> RockMinVals + 1, rockOnly |-> FALSE],
   [tail |-> Colon \o RockCorners \o <<",", "0", ",", "9", ",", "3", ",", "2">>, colon |-> TRUE,
    nvals |-> RockMinVals + 4, rockOnly |-> FALSE],
   [tail |-> Colon \o RockCorners \o Colon \o ValToken(7), colon |-> FALSE,
    nvals |-> 0, rockOnly |-> TRUE]}
RockCutInputs ==
  {l \o k \o c.tail : l \in LeadWs, k \in RockKeywords, c \in RockCases}

RockInit ==
  /\ pc = "config"
  /\ fFluxType = "mono"
  /\ fEventsPerSpill = 1
  /\ fPOTPerSpill = 1
  /\ fTopVolume = "volDetector"
  /\ fWorldVolume = "volWorld"
  /\ fFiducialCut \in RockCutInputs
  /\ genFlavorsSize = 1
  /\ fFluxFilesSize = 1
  /\ fHistEventsPerSpill = 0
  /\ fSpillEvents = 0
  /\ fSpillExposure = 0
  /\ fTotalExposure = 0
  /\ UsedPOTs = 0
  /\ NFluxNeutrinos = 0
  /\ GlobProbScale = 1
  /\ geoTopVolume = "volWorld"
  /\ NDEBUG \in BOOLEAN
  /\ geomVolSelector = NoSelector
  /\ fidLog = << >>
  /\ atmoFluxFiles = << >>
  /\ genFlavors = SubSeq(DefaultFlavors, 1, genFlavorsSize)
  /\ fMixerBaseline = 0
  /\ fMixerConfig = sNone
  /\ fGeomScan = sDefault
  /\ fFluxHistograms = << >>
  /\ fTotalHistFlux = Unassigned
  /\ energySpectra = << >>
  /\ loadedFluxFiles = {}
  /\ fFluxD = "null"
  /\ fFluxD2GMCJD = NullFluxD2GMCJD
  /\ mixerLog = << >>
  /\ scanner = BuiltinScanner
  /\ scanLog = << >>
  /\ initTrace = << >>
  /\ lastOp = "none"
  /\ lastRet = FALSE
  /\ topVolAtGenerate = "volWorld"
  /\ nSpills = 0
  /\ nSuccess = 0
  /\ NoViews

RockNext ==
  \/ GENIEHelperCtor
  \/ Initialize
  \/ Sample
  \/ Stop

RockSpec == RockInit /\ [][RockNext]_vars

\* The event-display specification: up to MaxViews views are constructed,
\* filled, cleared and destroyed in any order, with at most MaxDrawables
\* objects made in all; no GENIEHelper call is made.
ViewInit ==
  /\ pc = "config"
  /\ fFluxType = "mono"
  /\ fEventsPerSpill = 1
  /\ fPOTPerSpill = 1
  /\ fTopVolume = "volDetector"
  /\ fWorldVolume = "volWorld"
  /\ fFiducialCut = sNone
  /\ genFlavorsSize = 1
  /\ fFluxFilesSize = 1
  /\ fHistEventsPerSpill = 0
  /\ fSpillEvents = 0
  /\ fSpillExposure = 0
  /\ fTotalExposure = 0
  /\ UsedPOTs = 0
  /\ NFluxNeutrinos = 0
  /\ GlobProbScale = 1
  /\ geoTopVolume = "volWorld"
  /\ NDEBUG = FALSE
  /\ geomVolSelector = NoSelector
  /\ fidLog = << >>
  /\ atmoFluxFiles = << >>
  /\ genFlavors = SubSeq(DefaultFlavors, 1, genFlavorsSize)
  /\ fMixerBaseline = 0
  /\ fMixerConfig = sNone
  /\ fGeomScan = sDefault
  /\ fFluxHistograms = << >>
  /\ fTotalHistFlux = Unassigned
  /\ energySpectra = << >>
  /\ loadedFluxFiles = {}
  /\ fFluxD = "null"
  /\ fFluxD2GMCJD = NullFluxD2GMCJD
  /\ mixerLog = << >>
  /\ scanner = BuiltinScanner
  /\ scanLog = << >>
  /\ initTrace = << >>
  /\ lastOp = "none"
  /\ lastRet = FALSE
  /\ topVolAtGenerate = "volWorld"
  /\ nSpills = 0
  /\ nSuccess = 0
  /\ NoViews

ViewNext ==
  \E v \in Views :
    \/ View2DCtor(v)
    \/ View2DDtor(v)
    \/ Clear(v)
    \/ \E s \in Settings :
         \/ AddMarker(v, s)
         \/ AddPolyMarker(v, s)
         \/ AddLine(v, s)
         \/ AddPolyLine(v, s)
         \/ AddArc(v, s)
         \/ AddBox(v, s)
         \/ AddText(v, s)
         \/ AddLatex(v, s)

ViewSpec == ViewInit /\ [][ViewNext]_vars

TypeOK ==
  /\ pc \in {"config", "constructed", "ready", "exited", "aborted"}
  /\ fFluxType \in FluxTypes \cup UnknownFluxTypes
  /\ fSpillEvents \in 0..MaxSpillEvents
  /\ fHistEventsPerSpill \in 0..MaxPoisson
  /\ nSpills \in 0..MaxSpills

\* =================================================================== claims
StopStep == lastOp' = "Stop"
ClosingStep == lastOp' = "Stop" /\ nSpills' = nSpills + 1
SampleStep == lastOp' = "Sample"

\* C1: once Initialize() has run, no Sample() or Stop() call, for any flux
\* type, takes fTotalExposure to a smaller value.
C1_TotalExposureNonDecreasing ==
  [][pc = "ready" => fTotalExposure' >= fTotalExposure]_vars

C1_Witness ==
  /\ IsNtuple /\ nSpills = 2 /\ lastOp = "Stop" /\ lastRet
  /\ fTotalExposure > fPOTPerSpill

\* C2 (as claimed): every Stop() call, whatever it returns, leaves
\* fSpillEvents, fSpillExposure, fTotalExposure and fHistEventsPerSpill as
\* they were.
C2_StopNeverMutates == [][StopStep => UNCHANGED spill]_vars

\* C2 (amended): a Stop() call that returns false leaves fSpillEvents,
\* fSpillExposure, fTotalExposure and fHistEventsPerSpill as they were, so
\* any run of Stop() calls returning false leaves the spill state untouched.
C2_StopFalseLeavesSpillState ==
  [][(StopStep /\ ~lastRet') => UNCHANGED spill]_vars

C2_Witness ==
  /\ lastOp = "Stop" /\ ~lastRet /\ IsHistogram /\ fEventsPerSpill = 0
  /\ fSpillEvents > 0 /\ fSpillEvents < fHistEventsPerSpill

\* C3: after every Sample() call the generator was run with the top volume
\* set to fTopVolume and the geometry's top volume is back at fWorldVolume,
\* whether the call returned true or false.
C3_TopVolumeRestored ==
  lastOp = "Sample" =>
    (topVolAtGenerate = fTopVolume /\ geoTopVolume = fWorldVolume)

\* C4: a Stop() call that returns true leaves fSpillEvents and fSpillExposure
\* at zero; one that returns false leaves both unchanged.
C4_ResetExactlyOnClosure ==
  [][StopStep =>
       IF lastRet' THEN fSpillEvents' = 0 /\ fSpillExposure' = 0
                   ELSE UNCHANGED <<fSpillEvents, fSpillExposure>>]_vars

C4_Witness ==
  /\ lastOp = "Stop" /\ lastRet /\ nSpills = 1 /\ IsHistogram
  /\ fEventsPerSpill = 2 /\ fSpillEvents = 0 /\ fSpillExposure = 0

\* C5: for a non-atmospheric source with fEventsPerSpill > 0, fSpillEvents
\* counts the successful Sample() calls since the last closure, and Stop()
\* returns true exactly when that count has reached fEventsPerSpill.
C5_ClosesAfterNEvents ==
  /\ [](pc = "ready" /\ ~IsAtmo /\ fEventsPerSpill > 0
          => fSpillEvents = nSuccess)
  /\ [][(StopStep /\ ~IsAtmo /\ fEventsPerSpill > 0)
          => (lastRet' <=> nSuccess >= fEventsPerSpill)]_vars

C5_Witness ==
  /\ lastOp = "Stop" /\ lastRet /\ IsNtuple /\ fEventsPerSpill = 2
  /\ nSpills >= 1

\* C6: for an atmospheric source the per-spill target is positive whenever
\* the helper runs, and Stop() returns true only with
\* fSpillEvents >= fEventsPerSpill.
C6_AtmoClosesOnlyAtTarget ==
  /\ [](pc \in {"constructed", "ready"} /\ IsAtmo => fEventsPerSpill > 0)
  /\ [][(StopStep /\ IsAtmo /\ lastRet')
          => fSpillEvents >= fEventsPerSpill]_vars

C6_Witness ==
  /\ lastOp = "Stop" /\ lastRet /\ IsAtmo /\ nSpills >= 1

\* C7: with fEventsPerSpill <= 0, Stop() returns true iff
\* fSpillExposure >= fPOTPerSpill for ntuple and simple_flux, and iff
\* fSpillEvents >= fHistEventsPerSpill for histogram.
C7_ExposureDrivenClosure ==
  [][(StopStep /\ fEventsPerSpill <= 0) =>
       /\ IsNtuple => (lastRet' <=> fSpillExposure >= fPOTPerSpill)
       /\ IsHistogram => (lastRet' <=> fSpillEvents >= fHistEventsPerSpill)]_vars

C7_Witness ==
  /\ lastOp = "Stop" /\ lastRet /\ fEventsPerSpill = 0
  /\ IsNtuple \/ (IsHistogram /\ fHistEventsPerSpill > 0)
  /\ fTotalExposure >= fPOTPerSpill

\* C8: a closing Stop() of a non-atmospheric source adds to fTotalExposure
\* the fSpillExposure of the call (mono, ntuple, simple_flux) or exactly
\* fPOTPerSpill (exposure-driven histogram), so that for the latter
\* fTotalExposure is the number of closed spills times fPOTPerSpill.
C8_ClosureBooksSpillExposure ==
  /\ [](pc = "ready" /\ IsHistogram /\ fEventsPerSpill <= 0
          => fTotalExposure = nSpills * fPOTPerSpill)
  /\ [][(ClosingStep /\ ~IsAtmo) =>
          /\ (IsMono \/ IsNtuple)
               => fTotalExposure' = fTotalExposure + fSpillExposure
          /\ (IsHistogram /\ fEventsPerSpill <= 0)
               => fTotalExposure' = fTotalExposure + fPOTPerSpill]_vars

C8_Witness ==
  /\ IsHistogram /\ fEventsPerSpill = 0 /\ nSpills = 2
  /\ fTotalExposure = 2 * fPOTPerSpill

\* C9 (as claimed): a closing Stop() of an atmospheric source leaves
\* fTotalExposure at its previous value plus 1e4*NFluxNeutrinos/(pi*Rt^2).
C9_AtmoExposureAdded ==
  [][(ClosingStep /\ IsAtmo) =>
       fTotalExposure' = fTotalExposure + AtmoExposure(NFluxNeutrinos)]_vars

\* C9 (amended): a closing Stop() of an atmospheric source sets
\* fTotalExposure to 1e4*NFluxNeutrinos/(pi*Rt^2), computed from the driver's
\* cumulative count; the previous value is overwritten, not added to.
C9_AtmoExposureAssigned ==
  [][(ClosingStep /\ IsAtmo) =>
       fTotalExposure' = AtmoExposure(NFluxNeutrinos)]_vars

C9_Witness ==
  /\ IsAtmo /\ nSpills = 2 /\ lastOp = "Stop" /\ lastRet
  /\ fTotalExposure > 0 /\ fTotalExposure = AtmoExposure(NFluxNeutrinos)

\* C10: a Sample() call that returns false leaves fSpillEvents unchanged,
\* and for ntuple and simple_flux it has set fSpillExposure to the driver's
\* cumulative used exposure over the probability scale, minus
\* fTotalExposure.
C10_FailedSampleAccounting ==
  [][(SampleStep /\ ~lastRet') =>
       /\ fSpillEvents' = fSpillEvents
       /\ IsNtuple => fSpillExposure' =
                        (UsedPOTs' \div GlobProbScale) - fTotalExposure]_vars

C10_Witness ==
  /\ lastOp = "Sample" /\ ~lastRet /\ IsNtuple
  /\ nSuccess = 0 /\ nSpills = 0 /\ fSpillExposure > 0

\* C11: a Sample() call that returns true adds one to fSpillEvents for mono
\* and histogram, and for ntuple, simple_flux and atmospheric sources with
\* fEventsPerSpill > 0; every other Sample() call leaves fSpillEvents
\* unchanged.
C11_SampleCountsOne ==
  [][SampleStep =>
       IF lastRet' /\ (IsMono \/ IsHistogram
                        \/ ((IsNtuple \/ IsAtmo) /\ fEventsPerSpill > 0))
         THEN fSpillEvents' = fSpillEvents + 1
         ELSE fSpillEvents' = fSpillEvents]_vars

C11_Witness ==
  /\ lastOp = "Sample" /\ lastRet /\ IsNtuple /\ fEventsPerSpill = 0
  /\ nSuccess = 2 /\ fSpillEvents = 0

\* C12: for ntuple and simple_flux, after every Sample() fSpillExposure is
\* UsedPOTs/GlobProbScale - fTotalExposure, and right after a closing Stop()
\* fTotalExposure is UsedPOTs/GlobProbScale as of the last Sample().
C12_SpillExposureIsDelta ==
  /\ [](lastOp = "Sample" /\ IsNtuple =>
          fTotalExposure + fSpillExposure = UsedPOTs \div GlobProbScale)
  /\ [][(ClosingStep /\ IsNtuple) =>
          fTotalExposure' = UsedPOTs' \div GlobProbScale]_vars

C12_Witness ==
  /\ lastOp = "Sample" /\ IsNtuple /\ nSpills >= 1
  /\ fTotalExposure > 0 /\ fSpillExposure > 0

\* C13: for mono the per-spill target is 1 whatever the configuration says:
\* Stop() returns false while no Sample() has succeeded since the last
\* closure, the first successful Sample() leaves fSpillEvents = 1, and the
\* Stop() that directly follows a successful Sample() returns true.
C13_MonoOneEventPerSpill ==
  /\ [](IsMono /\ pc \in {"constructed", "ready"} => fEventsPerSpill = 1)
  /\ [](IsMono /\ pc = "ready" /\ nSuccess = 1 => fSpillEvents = 1)
  /\ [][(IsMono /\ StopStep) =>
          /\ nSuccess = 0 => ~lastRet'
          /\ (lastOp = "Sample" /\ lastRet) => lastRet']_vars

C13_Witness ==
  /\ IsMono /\ lastOp = "Stop" /\ lastRet /\ nSpills = 2

\* C14: an atmospheric configuration whose flavour and file counts differ,
\* or whose EventsPerSpill is not 1, never gets past the constructor: the
\* process exits there and neither Initialize() nor Sample() ever runs.
C14_AtmoConfigFatal ==
  (IsAtmo /\ (genFlavorsSize # fFluxFilesSize \/ fEventsPerSpill # 1)) =>
    (pc \in {"config", "exited"} /\ lastOp \in {"none", "ctor"})

C14_Witness ==
  /\ pc = "exited" /\ fFluxType = "atmo_BARTOL"
  /\ genFlavorsSize = 2 /\ fFluxFilesSize = 1

\* C15: for an atmospheric flux with n flavours and n files, Initialize()
\* makes exactly n SetFluxFile assignments, the i-th flavour paired with the
\* i-th file.  (The nested loops of the code make one call per
\* (flavour, file) pair instead.)
C15_AtmoPairsInOrder ==
  (pc = "ready" /\ IsAtmo) =>
    atmoFluxFiles = [i \in 1..genFlavorsSize |-> <<i, i>>]

\* ---- claims about the fiducial selection (specification FidSpec)
HasChar(str, c) == \E i \in 1..Len(str) : str[i] = c

TestCoords == {0, 3, 5, 7}
TestPoints == {<<x, y, z>> : x \in TestCoords, y \in TestCoords, z \in TestCoords}

\* C16: a box cut with the six values val1..val6 installs a box selector
\* with lower corner (val1, val2, val3) and upper corner (val4, val5, val6),
\* and the selector's point test agrees with the analytic test on that box,
\* negated when the reverse flag is given.  (The code builds the upper corner
\* from the 5th, 6th and 6th values.)
C16_BoxCorners ==
  \A l \in LeadWs, f \in FlagTexts :
    (pc = "ready" /\ fFiducialCut = l \o f \o sBox \o Colon \o ValText(6)) =>
      /\ geomVolSelector.class = "Fiducial"
      /\ geomVolSelector.shape = "box"
      /\ geomVolSelector.args = <<1, 2, 3, 4, 5, 6>>
      /\ \A pt \in TestPoints :
           SelectorAccepts(geomVolSelector, pt)
             = (BoxContains(<<1, 2, 3>>, <<4, 5, 6>>, pt) # HasChar(f, "0"))

NoneWords == {<< >>, sNone, <<"N", "O", "N", "E">>, <<"N", "o", "n", "e">>}

\* C17 as stated: an empty cut, the word none in any letter case, and none
\* with whitespace before and after it install no selector and report no
\* parse problem.  (With whitespace after the word the code reports the
\* missing ":".)
C17_NoneIsSilent ==
  \A l \in LeadWs, w \in NoneWords, t \in TrailWs :
    (lastOp = "Initialize" /\ fFiducialCut = l \o w \o t) =>
      /\ pc = "ready"
      /\ geomVolSelector = NoSelector
      /\ fidLog = << >>

\* C17 amended: such a cut installs no selector and Initialize() completes;
\* nothing is logged when the word is at the end of the string (whitespace
\* only in front of it, or a string of whitespace alone), and the missing
\* ":" is reported when whitespace follows the word.
C17_NoneInstallsNothing ==
  \A l \in LeadWs, w \in NoneWords, t \in TrailWs :
    (lastOp = "Initialize" /\ fFiducialCut = l \o w \o t) =>
      /\ pc = "ready"
      /\ geomVolSelector = NoSelector
      /\ fidLog = IF w # << >> /\ t # << >> THEN <<"warning: no colon">>
                                            ELSE << >>

C17_Witness ==
  /\ pc = "ready"
  /\ fFiducialCut = <<" ", "N", "O", "N", "E", " ">>
  /\ geomVolSelector = NoSelector
  /\ fidLog = <<"warning: no colon">>

\* The non-rock cuts C18 calls malformed: an unrecognized shape keyword, or
\* a value list shorter than the shape's minimum, or a zpoly whose face
\* count (the first value, 1 in "1,2,...") is below 3.
MinValues == << <<sZcyl, 5>>, <<sBox, 6>>, <<sZpoly, 7>>, <<sSphere, 4>> >>
MalformedCuts ==
  {sCone \o Colon \o ValText(n) : n \in 0..PadSize}
  \cup {sZpoly \o Colon \o ValText(7)}
  \cup UNION {{MinValues[s][1] \o Colon \o ValText(n) :
                 n \in 0..(MinValues[s][2] - 1)} : s \in 1..Len(MinValues)}

\* C18: for a malformed non-rock cut the problem is logged, Initialize()
\* continues without aborting, and no volume selector is installed on the
\* geometry driver.  (The code logs and continues, but still adopts the
\* selector it built.)
C18_MalformedSkipsSelector ==
  \A l \in LeadWs, f \in FlagTexts :
    (lastOp = "Initialize" /\ \E c \in MalformedCuts : fFiducialCut = l \o f \o c)
      => /\ pc = "ready"
         /\ fidLog # << >>
         /\ geomVolSelector = NoSelector

\* C19: a rock cut with the values 1..n.  With six values the rock selector
\* has the minimal box (v1,v2,v3)-(v4,v5,v6), rockOnly true, wall minimum 800
\* and loss rate 0.00425/1.05; rockOnly, wall minimum, loss rate and fudge
\* factor are overridden only by a 7th, 8th, 9th and 10th value; with fewer
\* than six values Initialize() ends in a fatal error.  (The fatal error is
\* an assert(): a build with NDEBUG runs on past it.)
C19_RockSelector ==
  \A l \in LeadWs, f \in FlagTexts, n \in 0..MaxVals :
    (lastOp = "Initialize" /\ fFiducialCut = l \o f \o sRock \o Colon \o ValText(n))
      => IF n < 6
           THEN pc = "aborted"
           ELSE /\ pc = "ready"
                /\ geomVolSelector.class = "RockBox"
                /\ geomVolSelector.rockMin = <<1, 2, 3>>
                /\ geomVolSelector.rockMax = <<4, 5, 6>>
                /\ geomVolSelector.rockOnly
                /\ geomVolSelector.wall = (IF n >= 8 THEN 8 ELSE 800)
                /\ geomVolSelector.dedx = (IF n >= 9 THEN 9 * DeDxUnit ELSE 425)
                /\ geomVolSelector.fudge = (IF n >= 10 THEN 10 * FudgeUnit
                                                       ELSE 105)

\* The variant a keyword text selects when its keywords are probed in the
\* given order.
KeywordText == [zcyl |-> sZcyl, box |-> sBox, zpoly |-> sZpoly,
                sphere |-> sSphere, rock |-> sRock]
FirstProbed(order, text) ==
  LET hits == {i \in 1..Len(order) : Contains(text, KeywordText[order[i]])}
  IN  order[CHOOSE i \in hits : \A k \in hits : i <= k]
ShapeKeywords == Keywords \ {sCone}
InstalledVariant ==
  IF geomVolSelector.class = "RockBox" THEN "rock" ELSE geomVolSelector.shape

\* C20 as stated: the keywords are probed in the order zcyl, box, zpoly,
\* sphere, rock, and the first that occurs in the string determines the
\* selector variant.  (The code probes rock before the others.)
C20_ProbeOrderRockLast ==
  \A l \in LeadWs, f \in FlagTexts, k \in ShapeKeywords :
    (pc = "ready" /\ fFiducialCut = l \o f \o k \o Colon \o ValText(PadSize))
      => InstalledVariant
           = FirstProbed(<<"zcyl", "box", "zpoly", "sphere", "rock">>, ToLower(k))

\* C20 amended: the probe order is rock, zcyl, box, zpoly, sphere.
C20_ProbeOrderRockFirst ==
  \A l \in LeadWs, f \in FlagTexts, k \in ShapeKeywords :
    (pc = "ready" /\ fFiducialCut = l \o f \o k \o Colon \o ValText(PadSize))
      => InstalledVariant
           = FirstProbed(<<"rock", "zcyl", "box", "zpoly", "sphere">>, ToLower(k))

C20_Witness ==
  /\ pc = "ready"
  /\ fFiducialCut = sBox \o sRock \o Colon \o ValText(PadSize)
  /\ geomVolSelector.class = "RockBox"

\* C25: for a histogram source a Stop() that closes a spill leaves a
\* non-negative integer in fHistEventsPerSpill; for every other source type
\* closing a spill changes none of the per-spill targets.  (The redraw at
\* the end of Stop() is not guarded by the source type.)
C25_RedrawOnlyForHistogram ==
  /\ [][(ClosingStep /\ IsHistogram) => fHistEventsPerSpill' \in Nat]_vars
  /\ [][(ClosingStep /\ ~IsHistogram) =>
          UNCHANGED <<fEventsPerSpill, fPOTPerSpill, fHistEventsPerSpill>>]_vars

\* ---- claims about the geometry scan (specification ScanSpec)
InitializeStep == lastOp' = "Initialize"
\* an Initialize() that got as far as ConfigGeomScan
ScanStep == InitializeStep /\ Len(initTrace') >= 5
EmptyScans == {<< >>, <<" ">>, <<" ", " ">>}

\* C21 as stated: with an empty or whitespace-only scan string
\* ConfigGeomScan behaves as for "default": no scan parameter of the
\* geometry driver changes and no error is raised.  (The code takes the
\* empty string for an unknown method.)
C21_EmptyScanIsDefault ==
  [][(ScanStep /\ fGeomScan \in EmptyScans) =>
       /\ pc' = "ready"
       /\ scanner' = scanner
       /\ scanLog' = << >>]_vars

\* C21 amended: "default" returns silently with the scan parameters
\* untouched; an empty scan string also leaves them untouched, but is
\* reported as an unknown method and stopped by assert(0), so Initialize()
\* completes only in a build without assertions.
C21_EmptyScanIsUnknownMethod ==
  [][ScanStep =>
       /\ fGeomScan \in EmptyScans =>
            /\ scanner' = scanner
            /\ scanLog' = <<"error: unknown method">>
            /\ pc' = IF NDEBUG THEN "ready" ELSE "aborted"
       /\ TrimLeading(fGeomScan) = sDefault =>
            /\ scanner' = scanner
            /\ scanLog' = << >>
            /\ pc' = "ready"]_vars

C21_Witness ==
  /\ lastOp = "Initialize"
  /\ fGeomScan = << >>
  /\ ~NDEBUG
  /\ pc = "aborted"
  /\ scanLog = <<"error: unknown method">>

\* C26: parsing the value list ends normally for every number n of values
\* and leaves the values in order followed by zero padding, also when more
\* values than the padded size are given (n > 7 for a fiducial cut, n > 4
\* for a scan string).  The buffer is observed through what is built from
\* it: the seven arguments of MakeZPolygon and the box-scan parameters;
\* a parse that ended lets Initialize() go on past that stage.
\* (For n above the padded size the loop bound wraps and the loop never
\* ends normally.)
C26_PaddingTerminates ==
  [][InitializeStep =>
       /\ \A n \in {3, PadSize, PadSize + 1} :
            fFiducialCut = sZpoly \o Colon \o ValText(n) =>
              /\ Len(initTrace') > 1
              /\ geomVolSelector'.args
                   = [i \in 1..PadSize |-> IF i <= n THEN i ELSE 0]
       /\ \A l \in LeadWs, n \in 0..MaxScanVals :
            (fFiducialCut = sNone
             /\ fGeomScan = l \o sBox \o <<" ">> \o ScanValText(n)) =>
              /\ pc' # "aborted"
              /\ scanner'.npoints = (IF n >= 1 THEN 15 ELSE GeomNPoints)
              /\ scanner'.nrays = (IF n >= 2 THEN 25 ELSE GeomNRays)
              /\ scanner'.safety = (IF n >= 3 THEN 35 ELSE 0)
              /\ scanner'.writeout = (n >= 4)]_vars

\* C27: Initialize() runs geometry initialization, flux-driver construction,
\* ConfigGeomScan and Configure() in that order, and for every configured
\* flux-type string the flux source handed to the generator, and to the
\* geometry scanner by a flux-method scan, is non-null.  (A flux-type string
\* that matches no branch of InitializeFluxDriver leaves fFluxD at 0.)
C27_FluxSourceBeforeScan ==
  /\ initTrace = SubSeq(InitStages, 1, Len(initTrace))
  /\ Len(initTrace) >= 5 =>
       /\ fFluxD # "null"
       /\ fFluxD2GMCJD.kind # "null"
       /\ fFluxD2GMCJD.source # "null"
       /\ scanner.flux \in {"unset", fFluxD}
       /\ scanner.flux # "null"

\* ---- claims about the flux driver (specification FluxSpec)
\* an Initialize() that got past InitializeFluxDriver
FluxDriverStep == InitializeStep /\ Len(initTrace') >= 3

\* C22: for an ntuple or simple_flux source every file of the flux-file set
\* is loaded into the flux driver.  (The code loads the first file of the
\* set only.)
C22_AllFluxFilesLoaded ==
  (pc = "ready" /\ IsNtuple) => loadedFluxFiles = 1..fFluxFilesSize


\* the sum of the integrals of the histograms of a set of flavour codes
RECURSIVE FlavorFlux(_)
FlavorFlux(codes) ==
  IF codes = {} THEN 0
  ELSE LET c == CHOOSE x \in codes : TRUE
       IN  HistIntegral[HistName(c)] + FlavorFlux(codes \ {c})

\* C23: for a histogram source there is exactly one histogram per distinct
\* requested flavour, the histogram registered with the flux driver for a
\* flavour is the one loaded under that flavour's name, and the total
\* reference flux is the sum of the integrals of exactly those histograms.
\* (The total is accumulated onto a member that was never initialized, and
\* a flavour code without a histogram name shifts the registrations.)
C23_OneHistogramPerFlavor ==
  (IsHistogram /\ pc \in {"constructed", "ready"}) =>
    /\ Len(fFluxHistograms) = Cardinality(FlavorSet(genFlavors))
    /\ pc = "ready" =>
         /\ {energySpectra[i][1] : i \in 1..Len(energySpectra)}
              = FlavorSet(genFlavors)
         /\ \A i \in 1..Len(energySpectra) :
              /\ energySpectra[i][1] \in HistFlavors
              /\ energySpectra[i][2] = HistName(energySpectra[i][1])
    /\ fTotalHistFlux.assigned
    /\ FlavorSet(genFlavors) \subseteq HistFlavors
    /\ fTotalHistFlux.value = FlavorFlux(FlavorSet(genFlavors))


\* C24: when the first token of the trimmed mixer configuration is "none"
\* the generator is handed the flux driver itself; for every other token it
\* is handed one GFluxBlender that wraps the flux driver and carries the
\* configured baseline, and when the token maps to no mixer class the
\* blender is installed without a mixer, a warning is logged and
\* initialization goes on.
C24_MixerAdapter ==
  [][FluxDriverStep =>
       \A l \in LeadWs, k \in MixerKeywords, r \in MixerRests :
         fMixerConfig = l \o k \o r =>
           /\ fFluxD2GMCJD'.source = fFluxD'
           /\ k = sNone => fFluxD2GMCJD'.kind = "flux"
           /\ k # sNone =>
                /\ fFluxD2GMCJD'.kind = "GFluxBlender"
                /\ fFluxD2GMCJD'.baseline = fMixerBaseline
                /\ (k \notin BuiltinMixers) =>
                     \/ fFluxD2GMCJD'.mixer = "factory mixer"
                     \/ /\ fFluxD2GMCJD'.mixer = "null"
                        /\ mixerLog' # << >>
                        /\ pc' = "ready"
                /\ (k \in BuiltinMixers) => fFluxD2GMCJD'.mixer = "GFlavorMap"]_vars

\* a blender without a mixer was installed and initialization completed
C24_Witness ==
  /\ pc = "ready"
  /\ lastOp = "Initialize"
  /\ fFluxD2GMCJD.kind = "GFluxBlender"
  /\ fFluxD2GMCJD.mixer = "null"
  /\ fFluxD2GMCJD.baseline = 7
  /\ fFluxD2GMCJD.source = fFluxD
  /\ mixerLog # << >>


\* ---- claims about the rock box (specification RockSpec)
SampleStepDone == lastOp = "Sample"

\* C28: when the fiducial cut is a rock cut, initialization replaces the top
\* volume by the world volume, every later Sample() sets the geometry's top
\* volume to the world volume before generating and leaves it there, and the
\* selector is a box over the given corners when rockOnly is true and a
\* sphere of radius 1e-10 at the origin when it is false.  (A rock cut
\* without ":" returns before any of this.)
C28_RockReplacesTopVolume ==
  (pc = "ready" /\ IsRockCut(NormalizedCut(fFiducialCut))) =>
    /\ fTopVolume = fWorldVolume
    /\ SampleStepDone =>
         (topVolAtGenerate = fWorldVolume /\ geoTopVolume = fWorldVolume)
    /\ geomVolSelector.class = "RockBox"
    /\ geomVolSelector.shape = IF geomVolSelector.rockOnly THEN "box"
                                                           ELSE "sphere"

\* C28, amended: the above holds for a rock cut whose type and values are
\* separated by exactly one ":" (the corners being the first six values
\* when there are six); a rock cut that does not split in two at ":" keeps
\* the configured top volume and installs no selector.
C28_RockWithValuesReplacesTopVolume ==
  pc = "ready" =>
    \A l \in LeadWs, k \in RockKeywords, c \in RockCases :
      fFiducialCut = l \o k \o c.tail =>
        IF c.colon
          THEN /\ fTopVolume = fWorldVolume
               /\ SampleStepDone =>
                    (topVolAtGenerate = fWorldVolume
                     /\ geoTopVolume = fWorldVolume)
               /\ geomVolSelector.class = "RockBox"
               /\ geomVolSelector.rockOnly = c.rockOnly
               /\ c.rockOnly =>
                    /\ geomVolSelector.shape = "box"
                    /\ c.nvals >= RockMinVals =>
                         geomVolSelector.args = [i \in 1..RockMinVals |-> i]
               /\ ~c.rockOnly =>
                    /\ geomVolSelector.shape = "sphere"
                    /\ geomVolSelector.unit = "1e-10 cm"
                    /\ geomVolSelector.args = <<0, 0, 0, 1>>
          ELSE /\ fTopVolume = "volDetector"
               /\ geomVolSelector = NoSelector
               /\ SampleStepDone => topVolAtGenerate = "volDetector"

\* a Sample() after a rock cut with rockOnly = 0 replaced volDetector
C28_Witness ==
  /\ pc = "ready"
  /\ SampleStepDone
  /\ fFiducialCut = sRock \o Colon \o RockCorners \o <<",", "0">>
  /\ fTopVolume = "volWorld"
  /\ topVolAtGenerate = "volWorld"
  /\ geoTopVolume = "volWorld"
  /\ geomVolSelector.shape = "sphere"
  /\ ~lastRet


\* ---- claims about View2D (specification ViewSpec)
\* C29: Clear() and the destructor move every object of the view to the end
\* of the static list of its kind and leave the view empty; an Add function
\* takes the last object of the static list when there is one and makes a
\* new object only when the list is empty; hence the number of objects ever
\* made of a kind equals the largest number of that kind that the views
\* held at one time.
C29_PoolReuse ==
  /\ [](\A t \in DrawableTypes : Allocated(t) = maxHeld[t])
  /\ [][\A v \in Views :
          (\E t \in DrawableTypes : Len(fL'[v][t]) < Len(fL[v][t])) =>
            /\ fL'[v] = EmptyLists
            /\ \A u \in DrawableTypes :
                 /\ fgL'[u] = fgL[u] \o fL[v][u]
                 /\ Allocated(u)' = Allocated(u)]_vars
  /\ [][\A v \in Views, t \in DrawableTypes :
          Len(fL'[v][t]) > Len(fL[v][t]) =>
            /\ Len(fL'[v][t]) = Len(fL[v][t]) + 1
            /\ IF fgL[t] = << >>
                 THEN /\ Allocated(t)' = Allocated(t) + 1
                      /\ fL'[v][t][Len(fL'[v][t])] = Allocated(t)'
                      /\ fgL'[t] = << >>
                 ELSE /\ Allocated(t)' = Allocated(t)
                      /\ fL'[v][t][Len(fL'[v][t])] = fgL[t][Len(fgL[t])]
                      /\ fgL'[t] = SubSeq(fgL[t], 1, Len(fgL[t]) - 1)]_vars

\* two markers were made for two views, both views were cleared, and the
\* first view took the second marker back from the static list
C29_Witness ==
  /\ alive[1] /\ alive[2]
  /\ fL[1]["Marker"] = <<2>>
  /\ fL[2]["Marker"] = << >>
  /\ fgL["Marker"] = <<1>>
  /\ Allocated("Marker") = 2
  /\ maxHeld["Marker"] = 2

\* how often object n occurs on a list
Occurrences(list, n) == Cardinality({i \in DOMAIN list : list[i] = n})

\* C30: every object ever made is on exactly one list, once: the list of
\* one view or the static list of its kind.
C30_ExactlyOneOwner ==
  \A t \in DrawableTypes :
    /\ \A n \in 1..Allocated(t) :
         Occurrences(fgL[t], n)
           + SumOver([v \in Views |-> Occurrences(fL[v][t], n)], Views) = 1
    /\ \A v \in Views : \A i \in DOMAIN fL[v][t] : fL[v][t][i] \in 1..Allocated(t)
    /\ \A i \in DOMAIN fgL[t] : fgL[t][i] \in 1..Allocated(t)

\* one line is on the list of a view while another waits on the static
\* list, after the view that held it was destroyed
C30_Witness ==
  /\ alive[1] /\ ~alive[2]
  /\ fL[1]["Line"] = <<1>>
  /\ fL[2]["Line"] = << >>
  /\ fgL["Line"] = <<2>>

====
